---- MODULE Spec2Model ----
(***************************************************************************)
(* Workflow Comparative Analysis Engine.                                   *)
(*                                                                         *)
(*   Spec     analyze_workflow (str_wfs.py): the line scan of one text.    *)
(*   AggSpec  structural_analysis (str_wfs.py): the scan of the            *)
(*            (disease, source) files, the running totals, the two tables. *)
(*   SimSpec  load_workflows and analyze (analyze_wfs.py).                 *)
(*   VecSpec  compute_similarity and find_unique_terms (analyze_wfs.py)    *)
(*            on one disease's workflows.                                  *)
(*                                                                         *)
(* A Python str is a sequence of one-character strings; the character      *)
(* U+2022 is written "bullet".  None is <<>> and a value n is <<n>>.       *)
(***************************************************************************)
EXTENDS Integers, Sequences, FiniteSets, TLC

VARIABLES
    \* analyze_workflow
    lines, idx, major_steps, sub_steps, intervention_step_position,
    current_major_step, pc, result,
    \* structural_analysis
    d_idx, f_idx, results, site_order, processed_files, last_event,
    df_steps, df_aggression, printed, apc,
    \* load_workflows and analyze
    tree, unread, s_idx, wf_data, a_idx, report, spc, error,
    \* compute_similarity and find_unique_terms on one disease's workflows
    corpus, clean_texts, sim_sites, sim_matrix, feature_names, tfidf_rows, uniq, vpc

parser_vars == <<lines, idx, major_steps, sub_steps, intervention_step_position,
                 current_major_step, pc, result>>

agg_vars == <<d_idx, f_idx, results, site_order, processed_files, last_event,
              df_steps, df_aggression, printed, apc>>

sim_vars == <<tree, unread, s_idx, wf_data, a_idx, report, spc, error>>

vec_vars == <<corpus, clean_texts, sim_sites, sim_matrix, feature_names, tfidf_rows,
              uniq, vpc>>

vars == <<parser_vars, agg_vars, sim_vars, vec_vars>>

----------------------------------------------------------------------------
(* Bounds of the model. *)

MaxLines == 3

MaxDiseases == 2

MaxFolders == 2

----------------------------------------------------------------------------
(* Python values. *)

None == <<>>

Some(n) == <<n>>

Val(x) == x[1]

Digits == <<"0", "1", "2", "3", "4", "5", "6", "7", "8", "9">>

UpperCase == <<"A", "B", "C", "D", "E", "F", "G", "H", "I", "J", "K", "L", "M",
               "N", "O", "P", "Q", "R", "S", "T", "U", "V", "W", "X", "Y", "Z">>

LowerCase == <<"a", "b", "c", "d", "e", "f", "g", "h", "i", "j", "k", "l", "m",
               "n", "o", "p", "q", "r", "s", "t", "u", "v", "w", "x", "y", "z">>

\* \s of the re module, on the characters of the model's alphabet
IsSpace(c) == c \in {" ", "\t"}

\* \d of the re module
IsDigit(c) == \E i \in 1..10 : Digits[i] = c

DigitVal(c) == (CHOOSE i \in 1..10 : Digits[i] = c) - 1

\* int() of a string of digits
RECURSIVE ParseInt(_)
ParseInt(ds) ==
    IF ds = <<>> THEN 0
    ELSE 10 * ParseInt(SubSeq(ds, 1, Len(ds) - 1)) + DigitVal(ds[Len(ds)])

\* str.lower(), one character
LowerChar(c) ==
    IF \E i \in 1..26 : UpperCase[i] = c
    THEN LowerCase[CHOOSE i \in 1..26 : UpperCase[i] = c]
    ELSE c

\* str.lower()
Lower(s) == [i \in 1..Len(s) |-> LowerChar(s[i])]

\* needle in hay
Contains(hay, needle) ==
    \E i \in 1..(Len(hay) - Len(needle) + 1) :
        SubSeq(hay, i, i + Len(needle) - 1) = needle

\* the first position at or after i whose character is not a space
RECURSIVE SkipSpaces(_, _)
SkipSpaces(s, i) ==
    IF i <= Len(s) /\ IsSpace(s[i]) THEN SkipSpaces(s, i + 1) ELSE i

\* the first position at or after i whose character is not a digit
RECURSIVE SkipDigits(_, _)
SkipDigits(s, i) ==
    IF i <= Len(s) /\ IsDigit(s[i]) THEN SkipDigits(s, i + 1) ELSE i

----------------------------------------------------------------------------
(* str_wfs.py: configuration. *)

DEFINITIVE_INTERVENTION_KEYWORDS == <<
    <<"s", "u", "r", "g", "e", "r", "y">>,
    <<"s", "u", "r", "g", "i", "c", "a", "l">>,
    <<"t", "r", "a", "n", "s", "p", "l", "a", "n", "t">>,
    <<"r", "a", "d", "i", "a", "t", "i", "o", "n">>,
    <<"d", "i", "a", "l", "y", "s", "i", "s">>,
    <<"f", "u", "n", "d", "o", "p", "l", "i", "c", "a", "t", "i", "o", "n">>,
    <<"r", "e", "p", "l", "a", "c", "e", "m", "e", "n", "t">>,
    <<"a", "b", "l", "a", "t", "i", "o", "n">>,
    <<"r", "e", "s", "e", "c", "t", "i", "o", "n">>,
    <<"c", "u", "t">>,
    <<"o", "p", "e", "r", "a", "t", "i", "v", "e">>,
    <<"i", "m", "p", "l", "a", "n", "t">>,
    <<"n", "e", "u", "r", "o">>,
    <<"g", "r", "a", "f", "t">>,
    <<"l", "a", "s", "e", "r">>,
    <<"a", "r", "t", "e", "r", "y">>,
    <<"s", "t", "e", "r", "o", "i", "d", "s">> >>

----------------------------------------------------------------------------
(* analyze_workflow: the two regular expressions and the keyword test. *)

\* major_step_re.match(line): ^\s*(\d+)\s*[\.\)]\s* ; group is group(1)
MajorStepMatch(line) ==
    LET a == SkipSpaces(line, 1)
        b == SkipDigits(line, a)
        c == SkipSpaces(line, b)
    IN  IF b > a /\ c <= Len(line) /\ line[c] \in {".", ")"}
        THEN [matched |-> TRUE, group |-> SubSeq(line, a, b - 1)]
        ELSE [matched |-> FALSE, group |-> <<>>]

\* sub_step_re.match(line): ^\s*[-*bullet]\s*
SubStepMatch(line) ==
    LET a == SkipSpaces(line, 1)
    IN  a <= Len(line) /\ line[a] \in {"-", "*", "bullet"}

\* any(keyword in lower_line for keyword in DEFINITIVE_INTERVENTION_KEYWORDS)
HasKeyword(line) ==
    LET lower_line == Lower(line)
    IN  \E k \in 1..Len(DEFINITIVE_INTERVENTION_KEYWORDS) :
            Contains(lower_line, DEFINITIVE_INTERVENTION_KEYWORDS[k])

----------------------------------------------------------------------------
(* analyze_workflow: text.strip().split('\n').  A text is the sequence of  *)
(* its raw lines, the pieces between its newline characters.               *)

IsBlank(l) == \A i \in 1..Len(l) : IsSpace(l[i])

LStrip(l) == SubSeq(l, SkipSpaces(l, 1), Len(l))

RECURSIVE RStrip(_)
RStrip(l) ==
    IF l # <<>> /\ IsSpace(l[Len(l)]) THEN RStrip(SubSeq(l, 1, Len(l) - 1)) ELSE l

StripSplit(text) ==
    IF \A i \in 1..Len(text) : IsBlank(text[i])
    THEN << <<>> >>
    ELSE LET nonblank == {i \in 1..Len(text) : ~IsBlank(text[i])}
             first == CHOOSE i \in nonblank : \A j \in nonblank : i <= j
             last == CHOOSE i \in nonblank : \A j \in nonblank : j <= i
             n == last - first + 1
         IN  [i \in 1..n |->
                LET l == text[first + i - 1]
                    l1 == IF i = 1 THEN LStrip(l) ELSE l
                IN  IF i = n THEN RStrip(l1) ELSE l1]

----------------------------------------------------------------------------
(* analyze_workflow: one iteration of the loop over the lines. *)

\* the first digit of the group alone
CapturedStep_FirstDigit(m) == DigitVal(m.group[1])

\* int(match_major.group(1))
CapturedStep(m) == ParseInt(m.group)

\* the guard dropped: every keyword line assigns
LooksForIntervention_Always(position) == TRUE

\* if intervention_step_position is None
LooksForIntervention(position) == position = None

\* the captured number recorded whatever it is, a 0 included
PositionAtKeyword_Unchecked(cms, ms) ==
    IF ms > 0 THEN Some(cms) ELSE None

\* the running count of major steps recorded instead of the captured number
PositionAtKeyword_Count(cms, ms) ==
    IF cms > 0 THEN Some(ms)
    ELSE IF ms > 0 THEN Some(1)
    ELSE None

\* position 1 recorded for a keyword met before any major step
PositionAtKeyword_Heading(cms, ms) ==
    IF cms > 0 THEN Some(cms) ELSE Some(1)

\* the elif branch dropped
PositionAtKeyword_NoFallback(cms, ms) ==
    IF cms > 0 THEN Some(cms) ELSE None

\* the assignment under a keyword match
PositionAtKeyword(cms, ms) ==
    IF cms > 0 THEN Some(cms)
    ELSE IF ms > 0 THEN Some(1)
    ELSE None

ScanStep(st, line) ==
    LET match_major == MajorStepMatch(line)
        ms == IF match_major.matched THEN st.major_steps + 1 ELSE st.major_steps
        cms == IF match_major.matched THEN CapturedStep(match_major)
               ELSE st.current_major_step
        ss == IF SubStepMatch(line) THEN st.sub_steps + 1 ELSE st.sub_steps
        pos == IF LooksForIntervention(st.intervention_step_position)
                  /\ HasKeyword(line)
               THEN PositionAtKeyword(cms, ms)
               ELSE st.intervention_step_position
    IN  [major_steps |-> ms, sub_steps |-> ss,
         intervention_step_position |-> pos, current_major_step |-> cms]

ScanInit ==
    [major_steps |-> 0, sub_steps |-> 0,
     intervention_step_position |-> None, current_major_step |-> 0]

RECURSIVE ScanAll(_, _)
ScanAll(st, ls) ==
    IF ls = <<>> THEN st ELSE ScanAll(ScanStep(st, Head(ls)), Tail(ls))

\* analyze_workflow(text), the returned triple
analyze_workflow(text) ==
    LET st == ScanAll(ScanInit, StripSplit(text))
    IN  <<st.major_steps, st.sub_steps, st.intervention_step_position>>

----------------------------------------------------------------------------
(* The texts analyze_workflow is run on. *)

LineSet == {
    <<"1", ".", " ", "A", "p", "p", "l", "y", " ", "c", "r", "e", "a", "m">>,
    <<"2", ".", " ", "C", "o", "n", "s", "i", "d", "e", "r", " ", "s", "u", "r", "g", "e", "r", "y">>,
    <<"-", " ", "u", "s", "e", " ", "d", "a", "i", "l", "y">>,
    <<"C", "o", "n", "s", "i", "d", "e", "r", " ", "s", "t", "e", "r", "o", "i", "d", "s">>,
    <<"0", ".", " ", "r", "e", "s", "t">>,
    <<" ", "1", "0", " ", ")", " ", "L", "A", "S", "E", "R">>,
    <<"bullet", " ", "3", ".", " ", "g", "r", "a", "f", "t", "\t">>,
    <<>> }

Texts == UNION {[1..n -> LineSet] : n \in 1..MaxLines}

----------------------------------------------------------------------------
(* Spec: analyze_workflow as a state machine, one step per line. *)

AggIdle ==
    /\ d_idx = 0 /\ f_idx = 0 /\ results = <<>> /\ site_order = <<>>
    /\ processed_files = 0 /\ last_event = "idle"
    /\ df_steps = None /\ df_aggression = None /\ printed = <<>>
    /\ apc = "idle"

SimIdle ==
    /\ tree = <<>> /\ unread = <<>> /\ s_idx = 0 /\ wf_data = <<>> /\ a_idx = 0 /\ report = <<>>
    /\ spc = "idle" /\ error = None

ParserIdle ==
    /\ lines = <<>> /\ idx = 0 /\ major_steps = 0 /\ sub_steps = 0
    /\ intervention_step_position = None /\ current_major_step = 0
    /\ pc = "idle" /\ result = None

VecIdle ==
    /\ corpus = <<>> /\ clean_texts = <<>> /\ sim_sites = <<>> /\ sim_matrix = <<>>
    /\ feature_names = <<>> /\ tfidf_rows = <<>> /\ uniq = <<>> /\ vpc = "idle"

Init ==
    /\ \E text \in Texts : lines = StripSplit(text)
    /\ idx = 0
    /\ major_steps = 0
    /\ sub_steps = 0
    /\ intervention_step_position = None
    /\ current_major_step = 0
    /\ pc = "scan"
    /\ result = None
    /\ AggIdle
    /\ SimIdle
    /\ VecIdle

ScanLine ==
    /\ pc = "scan"
    /\ idx < Len(lines)
    /\ LET st == ScanStep([major_steps |-> major_steps, sub_steps |-> sub_steps,
                           intervention_step_position |-> intervention_step_position,
                           current_major_step |-> current_major_step],
                          lines[idx + 1])
       IN  /\ major_steps' = st.major_steps
           /\ sub_steps' = st.sub_steps
           /\ intervention_step_position' = st.intervention_step_position
           /\ current_major_step' = st.current_major_step
    /\ idx' = idx + 1
    /\ UNCHANGED <<lines, pc, result, agg_vars, sim_vars, vec_vars>>

Return ==
    /\ pc = "scan"
    /\ idx = Len(lines)
    /\ pc' = "returned"
    /\ result' = <<major_steps, sub_steps, intervention_step_position>>
    /\ UNCHANGED <<lines, idx, major_steps, sub_steps, intervention_step_position,
                   current_major_step, agg_vars, sim_vars, vec_vars>>

Next == ScanLine \/ Return

Spec == Init /\ [][Next]_vars

----------------------------------------------------------------------------
(* str_wfs.py: the folders, the diseases and the files.                     *)

\* WF_FOLDERS (a name starting with WF_ is not an identifier here)
WfFolders == <<"mayowf", "clevelandwf", "merckwf", "webmdwf", "wikiwf">>

DISEASE_LIST == <<
    "atopicdermatitis", "commoncold", "type2diabetes", "multiplesclerosis",
    "gerd", "cataracts", "pcos", "marfansyndrome", "asthma", "hemophilia",
    "hearingloss", "narcolepsy", "bph", "bellspalsy", "chronickidneydisease",
    "carpaltunnelsyndrome", "chlamydia", "tetanus", "acromegaly", "progeria" >>

SUFFIX_MAP ==
    [f \in {WfFolders[i] : i \in 1..Len(WfFolders)} |->
        CASE f = "mayowf" -> "mayo"
          [] f = "clevelandwf" -> "cleveland"
          [] f = "merckwf" -> "merck"
          [] f = "webmdwf" -> "webmd"
          [] f = "wikiwf" -> "wiki"]

\* the characters of a folder name
FolderChars(f) ==
    CASE f = "mayowf" -> <<"m", "a", "y", "o", "w", "f">>
      [] f = "clevelandwf" -> <<"c", "l", "e", "v", "e", "l", "a", "n", "d", "w", "f">>
      [] f = "merckwf" -> <<"m", "e", "r", "c", "k", "w", "f">>
      [] f = "webmdwf" -> <<"w", "e", "b", "m", "d", "w", "f">>
      [] f = "wikiwf" -> <<"w", "i", "k", "i", "w", "f">>

\* the loops run over the first MaxDiseases diseases and MaxFolders folders
Diseases == SubSeq(DISEASE_LIST, 1, MaxDiseases)

Folders == SubSeq(WfFolders, 1, MaxFolders)

\* os.path.join(root_dir, folder, f"wf_{disease}_{site_suffix}.txt")
FilePath(disease, folder) == <<folder, "wf_", disease, "_", SUFFIX_MAP[folder], ".txt">>

ExampleSurgery == <<
    <<"1", ".", " ", "A", "p", "p", "l", "y", " ", "c", "r", "e", "a", "m">>,
    <<"2", ".", " ", "C", "o", "n", "s", "i", "d", "e", "r", " ", "s", "u", "r", "g", "e", "r", "y">>,
    <<"-", " ", "u", "s", "e", " ", "d", "a", "i", "l", "y">> >>

ExampleSteroids == <<
    <<"C", "o", "n", "s", "i", "d", "e", "r", " ", "s", "t", "e", "r", "o", "i", "d", "s">>,
    <<"1", ".", " ", "A", "p", "p", "l", "y", " ", "c", "r", "e", "a", "m">> >>

TextTen == <<
    <<"1", ".">>, <<"2", ".">>, <<"3", ".">>, <<"4", ".">>, <<"5", ".">>,
    <<"6", ".">>, <<"7", ".">>, <<"8", ".">>, <<"9", ".">>,
    <<"1", "0", ")", " ", "l", "a", "s", "e", "r">> >>

\* the contents a workflow file may have
FileTexts == {ExampleSurgery, ExampleSteroids, TextTen}

\* analyze_workflow of each content
FileStats == [t \in FileTexts |-> analyze_workflow(t)]

\* the statements of the try block before the totals are touched
RaisePoints == {"open", "read", "analyze_workflow"}

----------------------------------------------------------------------------
(* structural_analysis: the accumulation of one file.                       *)

\* the defaultdict's factory
NewTotals ==
    [major |-> 0, sub |-> 0, aggression_pos_sum |-> 0, aggression_count |-> 0,
     count |-> 0]

\* the factory's value handed out on every access, the totals so far lost
Entry_Fresh(res, site) == NewTotals

\* results[site_key], the entry made on first access
Entry(res, site) == IF site \in DOMAIN res THEN res[site] ELSE NewTotals

Put(res, site, e) == [k \in DOMAIN res \cup {site} |-> IF k = site THEN e ELSE res[k]]

Touch(order, site) ==
    IF \E i \in 1..Len(order) : order[i] = site THEN order ELSE Append(order, site)

\* the guard reached with a position of None: the += is run on None
CountsIntervention_Unguarded(intervention_pos) == TRUE

\* if intervention_pos is not None
CountsIntervention(intervention_pos) == intervention_pos # None

\* the totals after the statements that follow analyze_workflow in the try
\* block; raised is set when one of them raises (int += None is a TypeError)
Accumulate(res, pf, site, stats) ==
    LET e0 == Entry(res, site)
        e1 == [e0 EXCEPT !.major = @ + stats[1]]
        e2 == [e1 EXCEPT !.sub = @ + stats[2]]
        e3 == [e2 EXCEPT !.count = @ + 1]
        pf1 == pf + 1
        intervention_pos == stats[3]
    IN  IF CountsIntervention(intervention_pos)
        THEN IF intervention_pos = None
             THEN [results |-> Put(res, site, e3), processed_files |-> pf1,
                   raised |-> TRUE]
             ELSE [results |->
                      Put(res, site,
                          [e3 EXCEPT !.aggression_pos_sum = @ + Val(intervention_pos),
                                     !.aggression_count = @ + 1]),
                   processed_files |-> pf1, raised |-> FALSE]
        ELSE [results |-> Put(res, site, e3), processed_files |-> pf1,
              raised |-> FALSE]

----------------------------------------------------------------------------
(* structural_analysis: the two tables.                                     *)

\* str(n) of n >= 0
RECURSIVE IntToStr(_)
IntToStr(n) ==
    IF n < 10 THEN <<Digits[n + 1]>>
    ELSE IntToStr(n \div 10) \o <<Digits[(n % 10) + 1]>>

\* num / den in hundredths, rounded to nearest, ties to even (den is a count
\* of files, at most 20: a quotient on a tie has den 8 or 16 and is exact as a
\* float, any other is far from a tie)
Hundredths(num, den) ==
    LET q == (100 * num) \div den
        r == (100 * num) % den
    IN  IF 2 * r < den THEN q
        ELSE IF 2 * r > den THEN q + 1
        ELSE IF q % 2 = 0 THEN q ELSE q + 1

\* f"{num / den:.2f}"
Format2f(num, den) ==
    LET h == Hundredths(num, den)
    IN  IntToStr(h \div 100) \o <<".">> \o
        <<Digits[((h % 100) \div 10) + 1], Digits[(h % 10) + 1]>>

\* ord(c) of the characters a formatted average is made of
Ord(c) == IF c = "." THEN 46 ELSE 48 + DigitVal(c)

\* a < b of two str: by code point, a proper prefix first
RECURSIVE StrLess(_, _)
StrLess(a, b) ==
    IF b = <<>> THEN FALSE
    ELSE IF a = <<>> THEN TRUE
    ELSE IF Ord(Head(a)) # Ord(Head(b)) THEN Ord(Head(a)) < Ord(Head(b))
    ELSE StrLess(Tail(a), Tail(b))

\* str.replace('wf', '')
RECURSIVE ReplaceWf(_)
ReplaceWf(s) ==
    IF Len(s) < 2 THEN s
    ELSE IF s[1] = "w" /\ s[2] = "f" THEN ReplaceWf(SubSeq(s, 3, Len(s)))
    ELSE <<s[1]>> \o ReplaceWf(Tail(s))

UpperChar(c) ==
    IF \E i \in 1..26 : LowerCase[i] = c
    THEN UpperCase[CHOOSE i \in 1..26 : LowerCase[i] = c]
    ELSE c

IsLetter(c) == \E i \in 1..26 : LowerCase[i] = c \/ UpperCase[i] = c

\* str.title()
Title(s) ==
    [i \in 1..Len(s) |->
        IF i = 1 \/ ~IsLetter(s[i - 1]) THEN UpperChar(s[i]) ELSE LowerChar(s[i])]

\* site.replace('wf', '').title()
SourceName(site) == Title(ReplaceWf(FolderChars(site)))

Reverse(s) == [i \in 1..Len(s) |-> s[Len(s) + 1 - i]]

\* one pass of the insertion sort: x goes after the entries not greater than it
RECURSIVE InsertByKey(_, _)
InsertByKey(sorted, x) ==
    IF sorted = <<>> THEN <<x>>
    ELSE IF StrLess(x.key, sorted[Len(sorted)].key)
         THEN Append(InsertByKey(SubSeq(sorted, 1, Len(sorted) - 1), x),
                     sorted[Len(sorted)])
         ELSE Append(sorted, x)

\* argsort of the key column (numpy sorts so few entries by insertion)
RECURSIVE SortAscending(_)
SortAscending(rows) ==
    IF rows = <<>> THEN <<>>
    ELSE InsertByKey(SortAscending(SubSeq(rows, 1, Len(rows) - 1)), rows[Len(rows)])

\* sort_values(by=..., ascending=ascending): pandas reverses, sorts, reverses
SortValues(rows, ascending) ==
    IF ascending THEN SortAscending(rows)
    ELSE Reverse(SortAscending(Reverse(rows)))

\* the rows of a list of sources that pass a test, in the order of the dict
RECURSIVE SelectSites(_, _)
SelectSites(order, keep) ==
    IF order = <<>> THEN <<>>
    ELSE IF Head(order) \in keep THEN <<Head(order)>> \o SelectSites(Tail(order), keep)
    ELSE SelectSites(Tail(order), keep)

\* table 1 filtered as table 2 is
StepSites_ByAggression(res) == {site \in DOMAIN res : res[site].aggression_count > 0}

\* step_data: a row for each source with data['count'] > 0
StepSites(res) == {site \in DOMAIN res : res[site].count > 0}

StepData(res, order) ==
    LET sites == SelectSites(order, StepSites(res))
    IN  [i \in 1..Len(sites) |->
            LET data == res[sites[i]]
            IN  [Source |-> SourceName(sites[i]),
                 key |-> Format2f(data.major, data.count),
                 AvgSub |-> Format2f(data.sub, data.count),
                 Count |-> data.count]]

\* aggression_data: a row for each source with data['aggression_count'] > 0
AggressionSites(res) == {site \in DOMAIN res : res[site].aggression_count > 0}

AggressionData(res, order) ==
    LET sites == SelectSites(order, AggressionSites(res))
    IN  [i \in 1..Len(sites) |->
            LET data == res[sites[i]]
            IN  [Source |-> SourceName(sites[i]),
                 key |-> Format2f(data.aggression_pos_sum, data.aggression_count),
                 Count |-> data.aggression_count]]

\* pd.DataFrame(rows).sort_values(by=column): no row, no column, a KeyError
SortRaises(rows) == rows = <<>>

----------------------------------------------------------------------------
(* AggSpec: structural_analysis as a state machine, one step per           *)
(* (disease, source) pair and one for the tables.                          *)

AggInit ==
    /\ ParserIdle
    /\ SimIdle
    /\ VecIdle
    /\ d_idx = 1
    /\ f_idx = 1
    /\ results = <<>>
    /\ site_order = <<>>
    /\ processed_files = 0
    /\ last_event = "start"
    /\ df_steps = None
    /\ df_aggression = None
    /\ printed = <<>>
    /\ apc = "scan"

\* the next (disease, folder) pair, or the end of both loops
Advance ==
    IF f_idx < Len(Folders)
    THEN /\ f_idx' = f_idx + 1
         /\ UNCHANGED <<d_idx, apc>>
    ELSE IF d_idx < Len(Diseases)
    THEN /\ d_idx' = d_idx + 1
         /\ f_idx' = 1
         /\ UNCHANGED apc
    ELSE /\ apc' = "tables"
         /\ UNCHANGED <<d_idx, f_idx>>

\* if not os.path.exists(file_path): continue
SkipMissing ==
    /\ apc = "scan"
    /\ last_event' = "missing"
    /\ Advance
    /\ UNCHANGED <<results, site_order, processed_files, df_steps, df_aggression,
                   printed, parser_vars, sim_vars, vec_vars>>

\* open, read or analyze_workflow raises: except Exception: continue
FileRaises ==
    /\ apc = "scan"
    /\ \E point \in RaisePoints : last_event' = "raised"
    /\ Advance
    /\ UNCHANGED <<results, site_order, processed_files, df_steps, df_aggression,
                   printed, parser_vars, sim_vars, vec_vars>>

\* the file is read and parsed, and its counts are added to its source's totals
ProcessFile ==
    /\ apc = "scan"
    /\ \E text \in FileTexts :
        LET site_key == Folders[f_idx]
            after == Accumulate(results, processed_files, site_key, FileStats[text])
        IN  /\ results' = after.results
            /\ processed_files' = after.processed_files
            /\ site_order' = Touch(site_order, site_key)
            /\ last_event' = IF after.raised THEN "raised" ELSE "processed"
    /\ Advance
    /\ UNCHANGED <<df_steps, df_aggression, printed, parser_vars, sim_vars, vec_vars>>

\* lines 122-161: both tables are built and sorted, then printed
GenerateTables ==
    /\ apc = "tables"
    /\ LET step_data == StepData(results, site_order)
           aggression_data == AggressionData(results, site_order)
       IN  IF SortRaises(step_data)
           THEN /\ apc' = "raised"
                /\ UNCHANGED <<df_steps, df_aggression, printed>>
           ELSE /\ df_steps' = Some(SortValues(step_data, FALSE))
                /\ IF SortRaises(aggression_data)
                   THEN /\ apc' = "raised"
                        /\ UNCHANGED <<df_aggression, printed>>
                   ELSE /\ df_aggression' = Some(SortValues(aggression_data, TRUE))
                        /\ printed' = <<SortValues(step_data, FALSE),
                                        SortValues(aggression_data, TRUE),
                                        processed_files>>
                        /\ apc' = "done"
    /\ last_event' = "tables"
    /\ UNCHANGED <<d_idx, f_idx, results, site_order, processed_files, parser_vars,
                   sim_vars, vec_vars>>

AggNext == SkipMissing \/ FileRaises \/ ProcessFile \/ GenerateTables

AggSpec == AggInit /\ [][AggNext]_vars

----------------------------------------------------------------------------
(* analyze_wfs.py: dicts, file names, preprocess and the vectorizer's      *)
(* vocabulary.  A dict is the sequence of its <<key, value>> items in       *)
(* insertion order.                                                         *)

DictHas(dict, k) == \E i \in 1..Len(dict) : dict[i][1] = k

DictGet(dict, k) == dict[CHOOSE i \in 1..Len(dict) : dict[i][1] = k][2]

\* dict[k] = v: a new key goes last, an old key keeps its place
DictSet(dict, k, v) ==
    IF DictHas(dict, k)
    THEN [i \in 1..Len(dict) |-> IF dict[i][1] = k THEN <<k, v>> ELSE dict[i]]
    ELSE Append(dict, <<k, v>>)

\* list(dict.keys())
DictKeys(dict) == [i \in 1..Len(dict) |-> dict[i][1]]

\* the first position j >= i with s[j] = "_", or 0
RECURSIVE FindUnderscore(_, _)
FindUnderscore(s, i) ==
    IF i > Len(s) THEN 0
    ELSE IF s[i] = "_" THEN i
    ELSE FindUnderscore(s, i + 1)

\* re.findall(r"wf_(.*?)_", name)[:1]: the group of the leftmost match, from
\* position i on; <<>> when nothing matches
RECURSIVE FindDisease(_, _)
FindDisease(name, i) ==
    IF i + 3 > Len(name) THEN <<>>
    ELSE IF /\ name[i] = "w" /\ name[i + 1] = "f" /\ name[i + 2] = "_"
            /\ FindUnderscore(name, i + 3) # 0
         THEN <<SubSeq(name, i + 3, FindUnderscore(name, i + 3) - 1)>>
         ELSE FindDisease(name, i + 1)

\* re.sub(r"\d+[\.\)]", " ", text)
RECURSIVE SubNumbering(_)
SubNumbering(text) ==
    LET digits == {k \in 1..Len(text) : IsDigit(text[k])}
    IN  IF digits = {} THEN text
        ELSE LET a == CHOOSE k \in digits : \A j \in digits : k <= j
                 b == SkipDigits(text, a)
             IN  IF b <= Len(text) /\ text[b] \in {".", ")"}
                 THEN SubSeq(text, 1, a - 1) \o <<" ">>
                          \o SubNumbering(SubSeq(text, b + 1, Len(text)))
                 ELSE SubSeq(text, 1, b - 1) \o SubNumbering(SubSeq(text, b, Len(text)))

preprocess(text) == Lower(SubNumbering(text))

\* \w of the re module
IsWordChar(c) == IsLetter(c) \/ IsDigit(c) \/ c = "_"

RECURSIVE SkipWord(_, _)
SkipWord(s, i) ==
    IF i <= Len(s) /\ IsWordChar(s[i]) THEN SkipWord(s, i + 1) ELSE i

RECURSIVE SkipNonWord(_, _)
SkipNonWord(s, i) ==
    IF i <= Len(s) /\ ~IsWordChar(s[i]) THEN SkipNonWord(s, i + 1) ELSE i

\* the vectorizer's tokens, token_pattern (?u)\b\w\w+\b: the runs of two or
\* more word characters from position i on, in the order of the text
RECURSIVE TokenList(_, _)
TokenList(s, i) ==
    LET a == SkipNonWord(s, i)
        b == SkipWord(s, a)
    IN  IF a > Len(s) THEN <<>>
        ELSE (IF b - a >= 2 THEN <<SubSeq(s, a, b - 1)>> ELSE <<>>) \o TokenList(s, b)

\* the set of the tokens of a text
Tokens(s) ==
    LET found == TokenList(s, 1)
    IN  {found[k] : k \in 1..Len(found)}

\* stop_words="english": the entries of the list that the texts use
StopWords == {<<"t", "h", "e">>, <<"a", "n", "d">>}

\* the vocabulary fit_transform builds from the texts
Vocabulary(texts) ==
    UNION {Tokens(Lower(texts[i])) : i \in 1..Len(texts)} \ StopWords

\* fit_transform raises ValueError("empty vocabulary; ...")
VectorizerRaises(texts) == Vocabulary(texts) = {}

\* the code point of a character of a term
CodePoint(c) ==
    IF IsDigit(c) THEN 48 + DigitVal(c)
    ELSE IF c = "_" THEN 95
    ELSE 96 + (CHOOSE i \in 1..26 : LowerCase[i] = c)

\* a < b of two terms, as sorted() orders the vocabulary
RECURSIVE TermLess(_, _)
TermLess(a, b) ==
    IF b = <<>> THEN FALSE
    ELSE IF a = <<>> THEN TRUE
    ELSE IF CodePoint(Head(a)) # CodePoint(Head(b))
         THEN CodePoint(Head(a)) < CodePoint(Head(b))
    ELSE TermLess(Tail(a), Tail(b))

\* the feature names: the vocabulary in sorted order, a term's index is its
\* place in it
RECURSIVE SortTerms(_)
SortTerms(V) ==
    IF V = {} THEN <<>>
    ELSE LET first == CHOOSE t \in V : \A u \in V \ {t} : TermLess(t, u)
         IN  <<first>> \o SortTerms(V \ {first})

\* the vectorizer's analyzer: lowercase, tokenize, drop the stop words
Analyzer(text) ==
    LET IsTerm(t) == t \notin StopWords
    IN  SelectSeq(TokenList(Lower(text), 1), IsTerm)

\* the documents of the texts, one list of terms per text
RECURSIVE Documents(_)
Documents(texts) ==
    IF texts = <<>> THEN <<>>
    ELSE <<Analyzer(Head(texts))>> \o Documents(Tail(texts))

\* the raw count of a term in a document
TermCount(doc, term) == Cardinality({k \in 1..Len(doc) : doc[k] = term})

\* the number of documents that hold the term
DocFrequency(docs, term) ==
    Cardinality({i \in 1..Len(docs) : TermCount(docs[i], term) > 0})

RECURSIVE SumSeq(_)
SumSeq(s) == IF s = <<>> THEN 0 ELSE Head(s) + SumSeq(Tail(s))

\* the count of a term over the whole corpus
CorpusFrequency(docs, term) ==
    SumSeq([i \in 1..Len(docs) |-> TermCount(docs[i], term)])

MaxFeatures == 40

\* the vocabularies max_features can leave: all the terms when there are at
\* most MaxFeatures, else MaxFeatures terms of the highest corpus frequency,
\* equal frequencies in whatever order argsort leaves them
FeatureSets(docs) ==
    LET V == UNION {{docs[i][k] : k \in 1..Len(docs[i])} : i \in 1..Len(docs)}
    IN  IF Cardinality(V) <= MaxFeatures THEN {V}
        ELSE {S \in SUBSET V :
                /\ Cardinality(S) = MaxFeatures
                /\ \A t \in S : \A u \in V \ S :
                      CorpusFrequency(docs, t) >= CorpusFrequency(docs, u)}

\* smooth idf, ln((1 + n) / (1 + df)) + 1, in thousandths, for n <= 5
\* documents (WF_FOLDERS has 5 entries)
Idf(n, df) ==
    LET table == << <<1000>>,
                    <<1405, 1000>>,
                    <<1693, 1288, 1000>>,
                    <<1916, 1511, 1223, 1000>>,
                    <<2099, 1693, 1405, 1182, 1000>> >>
    IN  table[n][df]

\* the tf-idf rows, one per document, one weight per term of the feature
\* names.  The l2 norm divides a row by a positive number and leaves a zero
\* row zero: the rows are kept unscaled, which changes neither the order
\* within a row nor a cosine.
Tfidf(docs, terms) ==
    [i \in 1..Len(docs) |->
        [t \in 1..Len(terms) |->
            TermCount(docs[i], terms[t])
                * Idf(Len(docs), DocFrequency(docs, terms[t]))]]

Dot(u, v) == SumSeq([t \in 1..Len(u) |-> u[t] * v[t]])

\* the squared norm normalize() divides by: a zero norm is replaced by 1
SquaredNorm(u) == IF Dot(u, u) = 0 THEN 1 ELSE Dot(u, u)

\* a cosine with the second row's norm taken from the first row
Cosine_RowNorm(u, v) ==
    [dot |-> Dot(u, v), norms |-> <<SquaredNorm(u), SquaredNorm(u)>>]

\* one entry of the matrix: the number dot / sqrt(norms[1] * norms[2]), the
\* product of the two squared norms kept as its factors, smaller first
Cosine(u, v) ==
    [dot |-> Dot(u, v),
     norms |-> IF SquaredNorm(u) <= SquaredNorm(v)
               THEN <<SquaredNorm(u), SquaredNorm(v)>>
               ELSE <<SquaredNorm(v), SquaredNorm(u)>>]

cosine_similarity(X) ==
    [i \in 1..Len(X) |-> [j \in 1..Len(X) |-> Cosine(X[i], X[j])]]

\* compute_similarity(workflows): the sites and the matrix, or the ValueError
compute_similarity(workflows) ==
    LET sites == DictKeys(workflows)
        texts == [i \in 1..Len(sites) |-> preprocess(DictGet(workflows, sites[i]))]
        docs == Documents(texts)
    IN  [raised |-> VectorizerRaises(texts),
         sites |-> sites,
         texts |-> texts,
         sim |-> cosine_similarity(Tfidf(docs, SortTerms(Vocabulary(texts))))]

\* the orders in which the members of a set can be listed
RECURSIVE Orderings(_)
Orderings(S) ==
    IF S = {} THEN {<<>>}
    ELSE UNION {{<<x>> \o o : o \in Orderings(S \ {x})} : x \in S}

\* row.argsort() over the indices of rest: ascending by weight; the default
\* sort is not stable, equal weights come out in any order
RECURSIVE ArgSorts(_, _)
ArgSorts(row, rest) ==
    IF rest = {} THEN {<<>>}
    ELSE LET least == CHOOSE i \in rest : \A j \in rest : row[i] <= row[j]
             tied == {i \in rest : row[i] = row[least]}
         IN  {g \o r : g \in Orderings(tied), r \in ArgSorts(row, rest \ tied)}

TopTerms == 10

\* the first TopTerms indices of the ascending order, reversed
TopIdxs_Lowest(row) ==
    {Reverse(SubSeq(p, 1, IF Len(p) < TopTerms THEN Len(p) ELSE TopTerms)) :
        p \in ArgSorts(row, 1..Len(row))}

\* row.argsort()[-10:][::-1]
TopIdxs(row) ==
    {Reverse(SubSeq(p, IF Len(p) < TopTerms THEN 1 ELSE Len(p) - TopTerms + 1, Len(p))) :
        p \in ArgSorts(row, 1..Len(row))}

\* the dicts the loop over the sites from the i-th on can build
RECURSIVE OutDicts(_, _, _, _)
OutDicts(sites, X, terms, i) ==
    IF i > Len(sites) THEN {<<>>}
    ELSE {<<<<sites[i], [k \in 1..Len(top) |-> terms[top[k]]]>>>> \o rest :
            top \in TopIdxs(X[i]), rest \in OutDicts(sites, X, terms, i + 1)}

\* find_unique_terms(workflows): what it can return, with the feature names
\* and the tf-idf rows it ranked
find_unique_terms(workflows) ==
    LET sites == DictKeys(workflows)
        docs == Documents([i \in 1..Len(sites) |-> preprocess(DictGet(workflows, sites[i]))])
    IN  UNION {LET terms == SortTerms(F)
                   tfidf == Tfidf(docs, terms)
               IN  {[terms |-> terms, tfidf |-> tfidf, out |-> out] :
                       out \in OutDicts(sites, tfidf, terms, 1)} :
               F \in FeatureSets(docs)}

----------------------------------------------------------------------------
(* The directory trees load_workflows is run on.                            *)

NameA == <<"w", "f", "_", "a", "_", "m", ".", "t", "x", "t">>

NameB == <<"w", "f", "_", "b", "_", "m", ".", "t", "x", "t">>

NameNotes == <<"n", "o", "t", "e", "s", ".", "t", "x", "t">>

NameXwfA == <<"x", "w", "f", "_", "a", "_", "m", ".", "t", "x", "t">>

BaseNames == {NameA, NameB, NameNotes, NameXwfA}

TextTheAnd == <<"t", "h", "e", " ", "a", "n", "d">>

TextRest == <<"1", ".", " ", "R", "e", "s", "t">>

SimTexts == {TextTheAnd, TextRest}

\* the texts a file of a given name may hold
FileContents(name) == IF name = NameA THEN SimTexts ELSE {TextRest}

\* a folder's *.txt files: a set of <<basename, text>>, one text per basename
FolderListings ==
    UNION {{ {<<n, f[n]>> : n \in names} :
               f \in {g \in [names -> SimTexts] : \A n \in names : g[n] \in FileContents(n)} } :
             names \in SUBSET BaseNames}

\* a source folder is missing or is a directory with a listing
FolderStates ==
    {[isdir |-> FALSE, files |-> {}]} \cup
    {[isdir |-> TRUE, files |-> l] : l \in FolderListings}

----------------------------------------------------------------------------
(* SimSpec: load_workflows followed by analyze, one step per folder, per   *)
(* file and per disease.                                                    *)

SimInit ==
    /\ ParserIdle
    /\ AggIdle
    /\ VecIdle
    /\ tree \in [1..Len(Folders) -> FolderStates]
    /\ unread = tree
    /\ s_idx = 1
    /\ wf_data = <<>>
    /\ a_idx = 1
    /\ report = <<>>
    /\ spc = "isdir"
    /\ error = None

\* the next folder of the loop, or the return of load_workflows
NextFolder ==
    IF s_idx < Len(Folders)
    THEN /\ s_idx' = s_idx + 1
         /\ spc' = "isdir"
    ELSE /\ spc' = "analyze"
         /\ UNCHANGED s_idx

\* if not os.path.isdir(path): continue
SkipFolder ==
    /\ spc = "isdir"
    /\ ~unread[s_idx].isdir
    /\ NextFolder
    /\ UNCHANGED <<tree, unread, wf_data, a_idx, report, error, parser_vars, agg_vars, vec_vars>>

\* glob.glob(os.path.join(path, "*.txt"))
GlobFolder ==
    /\ spc = "isdir"
    /\ unread[s_idx].isdir
    /\ spc' = "files"
    /\ UNCHANGED <<tree, unread, s_idx, wf_data, a_idx, report, error, parser_vars, agg_vars, vec_vars>>

\* one file of the folder, in whatever order glob lists them
LoadFile ==
    /\ spc = "files"
    /\ \E file \in unread[s_idx].files :
        LET folder == Folders[s_idx]
            found == FindDisease(file[1], 1)
        IN  /\ unread' = [unread EXCEPT ![s_idx].files = @ \ {file}]
            /\ IF found = <<>>
               THEN /\ spc' = "raised"
                    /\ error' = Some("IndexError")
                    /\ UNCHANGED wf_data
               ELSE /\ wf_data' =
                        LET disease == found[1]
                            old == IF DictHas(wf_data, disease)
                                   THEN DictGet(wf_data, disease) ELSE <<>>
                        IN  DictSet(wf_data, disease, DictSet(old, folder, file[2]))
                    /\ UNCHANGED <<spc, error>>
    /\ UNCHANGED <<tree, s_idx, a_idx, report, parser_vars, agg_vars, vec_vars>>

\* the folder's files are exhausted
EndFolder ==
    /\ spc = "files"
    /\ unread[s_idx].files = {}
    /\ NextFolder
    /\ UNCHANGED <<tree, unread, wf_data, a_idx, report, error, parser_vars, agg_vars, vec_vars>>

\* a disease with one source is analyzed too
EnoughSources_One(workflows) == Len(workflows) >= 1

\* not (len(workflows) < 2)
EnoughSources(workflows) == Len(workflows) >= 2

\* if len(workflows) < 2: continue
SkipDisease ==
    /\ spc = "analyze"
    /\ a_idx <= Len(wf_data)
    /\ ~EnoughSources(wf_data[a_idx][2])
    /\ a_idx' = a_idx + 1
    /\ UNCHANGED <<tree, unread, s_idx, wf_data, report, spc, error, parser_vars, agg_vars, vec_vars>>

\* compute_similarity and find_unique_terms of one disease, and its entry
AnalyzeDisease ==
    /\ spc = "analyze"
    /\ a_idx <= Len(wf_data)
    /\ EnoughSources(wf_data[a_idx][2])
    /\ LET disease == wf_data[a_idx][1]
           sim == compute_similarity(wf_data[a_idx][2])
       IN  IF sim.raised
           THEN /\ spc' = "raised"
                /\ error' = Some("ValueError")
                /\ UNCHANGED <<a_idx, report>>
           ELSE /\ \E found \in find_unique_terms(wf_data[a_idx][2]) :
                     report' = DictSet(report, disease,
                                       [sites |-> sim.sites,
                                        similarity_matrix |-> sim.sim,
                                        unique_terms |-> found.out])
                /\ a_idx' = a_idx + 1
                /\ UNCHANGED <<spc, error>>
    /\ UNCHANGED <<tree, unread, s_idx, wf_data, parser_vars, agg_vars, vec_vars>>

\* return report
ReturnReport ==
    /\ spc = "analyze"
    /\ a_idx > Len(wf_data)
    /\ spc' = "returned"
    /\ UNCHANGED <<tree, unread, s_idx, wf_data, a_idx, report, error, parser_vars, agg_vars, vec_vars>>

SimNext ==
    \/ SkipFolder \/ GlobFolder \/ LoadFile \/ EndFolder
    \/ SkipDisease \/ AnalyzeDisease \/ ReturnReport

SimSpec == SimInit /\ [][SimNext]_vars

----------------------------------------------------------------------------
(* VecSpec: compute_similarity and then find_unique_terms, as analyze      *)
(* calls them, on the workflows of one disease.                            *)

MaxSites == 2

TextDose == <<"R", "e", "s", "t", " ", "3", ".", "4", " ", "m", "g">>

TextIce == <<"2", ")", " ", "I", "c", "e", " ", "1", "0">>

\* eleven terms, two of them in this text only
TextLong ==
    <<"a", "a", " ", "a", "b", " ", "a", "c", " ", "a", "c", " ", "a", "d",
      " ", "a", "d", " ", "a", "e", " ", "a", "e", " ", "a", "e", " ", "a",
      "f", " ", "a", "f", " ", "a", "f", " ", "a", "g", " ", "a", "g", " ",
      "a", "g", " ", "a", "g", " ", "a", "h", " ", "a", "h", " ", "a", "h",
      " ", "a", "h", " ", "a", "i", " ", "a", "i", " ", "a", "i", " ", "a",
      "i", " ", "a", "i", " ", "a", "j", " ", "a", "k", " ", "a", "k">>

\* nine of the eleven terms of TextLong
TextShared ==
    <<"a", "a", " ", "a", "a", " ", "a", "a", " ", "a", "a", " ", "a", "a",
      " ", "a", "b", " ", "a", "b", " ", "a", "b", " ", "a", "b", " ", "a",
      "c", " ", "a", "c", " ", "a", "c", " ", "a", "c", " ", "a", "d", " ",
      "a", "d", " ", "a", "d", " ", "a", "e", " ", "a", "e", " ", "a", "e",
      " ", "a", "f", " ", "a", "f", " ", "a", "g", " ", "a", "g", " ", "a",
      "h", " ", "a", "i">>

SmallTexts == {TextTheAnd, TextRest, TextDose, TextIce}

\* the workflows dict of the sources in the order given
Workflows(texts) == [i \in 1..Len(texts) |-> <<WfFolders[i], texts[i]>>]

\* the dicts analyze passes on: 2 to MaxSites sources
Corpora ==
    {Workflows(texts) : texts \in UNION {[1..n -> SmallTexts] : n \in 2..MaxSites}}
    \cup {Workflows(<<TextLong, TextShared>>)}

VecInit ==
    /\ ParserIdle
    /\ AggIdle
    /\ SimIdle
    /\ corpus \in Corpora
    /\ clean_texts = <<>>
    /\ sim_sites = <<>>
    /\ sim_matrix = <<>>
    /\ feature_names = <<>>
    /\ tfidf_rows = <<>>
    /\ uniq = <<>>
    /\ vpc = "similarity"

\* sites, sim = compute_similarity(workflows)
ComputeSimilarity ==
    /\ vpc = "similarity"
    /\ LET sim == compute_similarity(corpus)
       IN  IF sim.raised
           THEN /\ vpc' = "raised"
                /\ UNCHANGED <<clean_texts, sim_sites, sim_matrix>>
           ELSE /\ vpc' = "unique"
                /\ clean_texts' = sim.texts
                /\ sim_sites' = sim.sites
                /\ sim_matrix' = sim.sim
    /\ UNCHANGED <<corpus, feature_names, tfidf_rows, uniq, parser_vars, agg_vars, sim_vars>>

\* uniq = find_unique_terms(workflows)
FindUniqueTerms ==
    /\ vpc = "unique"
    /\ \E found \in find_unique_terms(corpus) :
        /\ feature_names' = found.terms
        /\ tfidf_rows' = found.tfidf
        /\ uniq' = found.out
    /\ vpc' = "done"
    /\ UNCHANGED <<corpus, clean_texts, sim_sites, sim_matrix, parser_vars, agg_vars, sim_vars>>

VecNext == ComputeSimilarity \/ FindUniqueTerms

VecSpec == VecInit /\ [][VecNext]_vars

----------------------------------------------------------------------------
(* Properties of analyze_workflow, stated over the lines scanned so far. *)

\* the major-step lines among the first n lines
MajorLines(n) == {j \in 1..n : MajorStepMatch(lines[j]).matched}

\* the number written on the last major-step line among the first n lines, 0 if none
LastMajorNumber(n) ==
    IF MajorLines(n) = {} THEN 0
    ELSE LET j == CHOOSE i \in MajorLines(n) : \A k \in MajorLines(n) : k <= i
         IN  ParseInt(MajorStepMatch(lines[j]).group)

\* the keyword lines among the first n lines that lie at or after the first major-step line
KeywordLinesFromFirstMajor(n) ==
    {j \in 1..n : HasKeyword(lines[j]) /\ MajorLines(j) # {}}

\* C1: the step that first assigns the position while current_major_step > 0
\* assigns the number captured from the most recent major-step line at or
\* before the keyword line, not the count of major steps; and the text
\* '1. Apply cream', '2. Consider surgery', '- use daily' returns (2, 1, 2).
C1_PositionIsCapturedNumber ==
    [][/\ (/\ intervention_step_position = None
           /\ intervention_step_position' # None
           /\ current_major_step' > 0)
          => intervention_step_position' = Some(LastMajorNumber(idx'))
       /\ (pc' = "returned" /\ lines = ExampleSurgery)
          => result' = <<2, 1, Some(2)>>]_vars

\* C1 witness: the keyword line is itself the major-step line numbered 10 and
\* the first of the text: position 10, one major step counted.
C1_Witness ==
    /\ pc = "returned"
    /\ LastMajorNumber(1) = 10
    /\ HasKeyword(lines[1])
    /\ result[1] < 10
    /\ result[3] = Some(10)

C3_FallbackIsOne ==
    [][(/\ idx' = idx + 1
        /\ intervention_step_position = None
        /\ HasKeyword(lines[idx'])
        /\ current_major_step' = 0
        /\ major_steps' > 0)
       => intervention_step_position' = Some(1)]_vars

\* C3 witness: every major-step line scanned is numbered 0, a keyword line
\* has been scanned after one of them, and the position is 1.
C3_Witness ==
    /\ idx > 0
    /\ MajorLines(idx) # {}
    /\ \A j \in MajorLines(idx) : ParseInt(MajorStepMatch(lines[j]).group) = 0
    /\ KeywordLinesFromFirstMajor(idx) # {}
    /\ intervention_step_position = Some(1)

\* C4: once the position has a value no later line changes it, and the
\* returned position is that value.
C4_PositionNeverOverwritten ==
    [][/\ intervention_step_position # None
          => intervention_step_position' = intervention_step_position
       /\ pc' = "returned" => result'[3] = intervention_step_position]_vars

\* C4 witness: the position is 2 and a later keyword line, itself the
\* major-step line numbered 10, has been scanned.
C4_Witness ==
    /\ idx > 1
    /\ intervention_step_position = Some(2)
    /\ HasKeyword(lines[idx])
    /\ MajorStepMatch(lines[idx]).matched
    /\ current_major_step = 10

----------------------------------------------------------------------------
(* Properties of structural_analysis.                                       *)

\* the number a formatted average denotes, in hundredths
NumericValue(str) == ParseInt(SelectSeq(str, LAMBDA c : c # "."))

\* the tables as printed; no row when the run ended before printing
EmittedTable1 == IF printed = <<>> THEN <<>> ELSE printed[1]

EmittedTable2 == IF printed = <<>> THEN <<>> ELSE printed[2]

RowSources(rows) == {rows[i].Source : i \in 1..Len(rows)}

RunEnded == apc \in {"done", "raised"}

\* the rows of a ranking; none before the line that builds it has run
Rows(df) == IF df = None THEN <<>> ELSE Val(df)

\* C5: once structural_analysis has ended, ranking (a) as built has a row for
\* every source with at least one processed file, whatever its intervention
\* count, and ranking (b) as built has a row for exactly the sources whose
\* intervention count is greater than 0.
C5_RankingMembership ==
    RunEnded =>
        /\ RowSources(Rows(df_steps)) =
             {SourceName(site) : site \in {k \in DOMAIN results : results[k].count >= 1}}
        /\ RowSources(Rows(df_aggression)) =
             {SourceName(site) :
                site \in {k \in DOMAIN results : results[k].aggression_count > 0}}

\* C5 witness: a run has ended with a source that has a processed file and no
\* intervention position in ranking (a) and not in ranking (b), beside a
\* source that is in both.
C5_Witness ==
    /\ apc = "done"
    /\ \E a, b \in DOMAIN results :
        /\ results[a].count >= 1
        /\ results[a].aggression_count = 0
        /\ results[b].aggression_count > 0
        /\ SourceName(a) \in RowSources(Rows(df_steps))
        /\ SourceName(a) \notin RowSources(Rows(df_aggression))
        /\ SourceName(b) \in RowSources(Rows(df_aggression))

\* C6: table 1 is in descending order of the numeric value of the average
\* major steps.
C6_Table1NumericDescending ==
    apc = "done" =>
        \A i, j \in 1..Len(EmittedTable1) :
            i < j => NumericValue(EmittedTable1[i].key) >= NumericValue(EmittedTable1[j].key)

\* C7: table 2 is in ascending order of the numeric value of the average
\* intervention position, the numerically lowest average first.
C7_Table2NumericAscending ==
    apc = "done" =>
        \A i, j \in 1..Len(EmittedTable2) :
            i < j => NumericValue(EmittedTable2[i].key) <= NumericValue(EmittedTable2[j].key)

\* C8: a run in which no source has an intervention position, or no file is
\* found, ends without raising, with table 1 printed.
C8_EmptyRankingCompletes ==
    (RunEnded /\ \A site \in DOMAIN results : results[site].aggression_count = 0) =>
        /\ apc = "done"
        /\ RowSources(EmittedTable1) = {SourceName(site) : site \in DOMAIN results}

\* C9: a step in which reading or parsing a file raises leaves every source's
\* totals and processed_files as they were, and the scan goes on to the next
\* (disease, source) pair (or, after the last pair, to the tables).
C9_RaiseLeavesTotals ==
    [][last_event' = "raised" =>
          /\ results' = results
          /\ site_order' = site_order
          /\ processed_files' = processed_files
          /\ apc' \in {"scan", "tables"}
          /\ apc' = "scan" =>
                \/ d_idx' = d_idx /\ f_idx' = f_idx + 1
                \/ d_idx' = d_idx + 1 /\ f_idx = Len(Folders) /\ f_idx' = 1
          /\ apc' = "tables" => d_idx = Len(Diseases) /\ f_idx = Len(Folders)]_vars

\* C9 witness: a file has raised after another was counted, the totals hold
\* the counted file, and the scan is going on.
C9_Witness ==
    /\ last_event = "raised"
    /\ processed_files = 1
    /\ \E site \in DOMAIN results : results[site].count = 1
    /\ apc = "scan"

----------------------------------------------------------------------------
(* Properties of the similarity run.                                        *)

\* the report analyze hands to its caller; none when an exception left it
ReturnedReport == IF spc = "returned" THEN report ELSE <<>>

SimRunEnded == spc \in {"returned", "raised"}

\* the diseases named by the well-formed file names of the tree
TreeDiseases ==
    {FindDisease(f[1], 1)[1] :
        f \in {g \in UNION {tree[k].files : k \in 1..Len(Folders)} :
                  FindDisease(g[1], 1) # <<>>}}

\* the folders holding a file of the disease
SourcesOf(disease) ==
    {k \in 1..Len(Folders) :
        \E f \in tree[k].files : FindDisease(f[1], 1) = <<disease>>}

\* the disease's own texts leave the vectorizer no vocabulary
DiseaseFails(disease) ==
    \A k \in SourcesOf(disease) :
        \A f \in tree[k].files :
            FindDisease(f[1], 1) = <<disease>> => Tokens(preprocess(f[2])) \ StopWords = {}

\* C10: a malformed file name or a disease whose vectorization raises does
\* not abort the run: when the run is over the returned report has an entry
\* for every disease with at least 2 sources that does not itself fail.
C10_FailureDoesNotAbort ==
    SimRunEnded =>
        \A disease \in TreeDiseases :
            (Cardinality(SourcesOf(disease)) >= 2 /\ ~DiseaseFails(disease))
                => DictHas(ReturnedReport, disease)

\* the basename has the form wf_<disease>_<anything>.txt
HasPrefixForm(name) ==
    /\ Len(name) >= 8
    /\ SubSeq(name, 1, 3) = <<"w", "f", "_">>
    /\ \E j \in 4..(Len(name) - 4) : name[j] = "_"
    /\ SubSeq(name, Len(name) - 3, Len(name)) = <<".", "t", "x", "t">>

\* C11: the step that reads a file whose basename lacks the wf_<disease>_
\* prefix surfaces an error and records nothing.
C11_MalformedNameSurfaced ==
    [][\A f \in unread[s_idx].files \ unread'[s_idx].files :
          ~HasPrefixForm(f[1]) => (spc' = "raised" /\ wf_data' = wf_data)]_vars

\* C12: the returned report has an entry for a disease exactly when the
\* disease has texts from at least 2 distinct source folders; a disease with
\* one source, several files in that folder included, has none.
C12_EntryIffTwoSources ==
    spc = "returned" =>
        \A disease \in TreeDiseases :
            DictHas(report, disease) <=> Cardinality(SourcesOf(disease)) >= 2

\* C12 witness: a returned report with an entry, and a disease left out
\* whose two files lie in one folder.
C12_Witness ==
    /\ spc = "returned"
    /\ \E disease \in TreeDiseases : DictHas(report, disease)
    /\ \E disease \in TreeDiseases :
        /\ ~DictHas(report, disease)
        /\ \E k \in 1..Len(Folders) :
            /\ SourcesOf(disease) = {k}
            /\ Cardinality({f \in tree[k].files : FindDisease(f[1], 1) = <<disease>>}) = 2

----------------------------------------------------------------------------
(* Properties of compute_similarity and find_unique_terms.                  *)

RECURSIVE GCD(_, _)
GCD(a, b) == IF b = 0 THEN a ELSE GCD(b, a % b)

\* the fraction a / b in lowest terms
Lowest(a, b) == <<a \div GCD(a, b), b \div GCD(a, b)>>

\* the entry is the number 1: dot * dot = norms[1] * norms[2], compared as
\* the fractions dot / norms[1] and norms[2] / dot
IsOne(e) == e.dot > 0 /\ Lowest(e.dot, e.norms[1]) = Lowest(e.norms[2], e.dot)

SimilarityDone == vpc \in {"unique", "done"}

\* the shared vocabulary V that find_unique_terms ranked
CorpusTerms == {feature_names[t] : t \in 1..Len(feature_names)}

\* the weight of a term in the vector of the i-th source
Weight(i, term) ==
    tfidf_rows[i][CHOOSE t \in 1..Len(feature_names) : feature_names[t] = term]

\* the i-th and the j-th text have a vocabulary term in common
ShareTerm(i, j) ==
    (Tokens(clean_texts[i]) \cap Tokens(clean_texts[j])) \ StopWords # {}

\* the terms returned for the i-th source
UniqueTerms(i) == uniq[i][2]

\* C13: every diagonal entry of the similarity matrix is 1.0, also for a
\* source whose text has no non-stopword token.
C13_DiagonalIsOne ==
    SimilarityDone => \A i \in 1..Len(sim_matrix) : IsOne(sim_matrix[i][i])

\* C14: the matrix is square with one row and one column per source, in the
\* order of the returned sites (two sources have a positive entry exactly
\* when their texts share a term), and it is symmetric.
C14_SquareAlignedSymmetric ==
    SimilarityDone =>
        /\ sim_sites = DictKeys(corpus)
        /\ Len(sim_matrix) = Len(sim_sites)
        /\ \A i \in 1..Len(sim_sites) :
            /\ Len(sim_matrix[i]) = Len(sim_sites)
            /\ \A j \in 1..Len(sim_sites) :
                /\ sim_matrix[i][j] = sim_matrix[j][i]
                /\ sim_matrix[i][j].dot > 0 <=> ShareTerm(i, j)

\* C14 witness: two sources of different norms whose entry is neither 0 nor 1.
C14_Witness ==
    /\ SimilarityDone
    /\ \E i, j \in 1..Len(sim_matrix) :
        /\ sim_matrix[i][j].dot > 0
        /\ ~IsOne(sim_matrix[i][j])
        /\ sim_matrix[i][j].norms[1] # sim_matrix[i][j].norms[2]

\* C15: of two terms of equal weight the one with the smaller vocabulary
\* index is listed first, and is the one kept at the cut-off.
C15_TiesByVocabularyIndex ==
    vpc = "done" =>
        \A i \in 1..Len(uniq) :
            \A a \in 1..Len(UniqueTerms(i)) :
                /\ \A b \in (a + 1)..Len(UniqueTerms(i)) :
                      Weight(i, UniqueTerms(i)[a]) = Weight(i, UniqueTerms(i)[b])
                          => TermLess(UniqueTerms(i)[a], UniqueTerms(i)[b])
                /\ \A u \in CorpusTerms \ {UniqueTerms(i)[b] : b \in 1..Len(UniqueTerms(i))} :
                      Weight(i, UniqueTerms(i)[a]) = Weight(i, u)
                          => TermLess(UniqueTerms(i)[a], u)

\* C16: a source with fewer than 10 nonzero weights gets exactly its
\* nonzero-weight terms; no zero-weight term fills the list.
C16_NoZeroWeightPadding ==
    vpc = "done" =>
        \A i \in 1..Len(uniq) :
            LET nonzero == {t \in CorpusTerms : Weight(i, t) > 0}
            IN  Cardinality(nonzero) < TopTerms =>
                    /\ Len(UniqueTerms(i)) = Cardinality(nonzero)
                    /\ \A a \in 1..Len(UniqueTerms(i)) : UniqueTerms(i)[a] \in nonzero

\* C17: each source gets exactly min(10, |V|) distinct terms of V, in
\* non-increasing order of its weights, and no term left out weighs more
\* than a term returned.
C17_TopTermsByWeight ==
    vpc = "done" =>
        /\ Cardinality(CorpusTerms) <= MaxFeatures
        /\ DictKeys(uniq) = DictKeys(corpus)
        /\ \A i \in 1..Len(uniq) :
            LET returned == {UniqueTerms(i)[a] : a \in 1..Len(UniqueTerms(i))}
            IN  /\ Len(UniqueTerms(i)) =
                      IF Cardinality(CorpusTerms) < TopTerms
                      THEN Cardinality(CorpusTerms) ELSE TopTerms
                /\ Cardinality(returned) = Len(UniqueTerms(i))
                /\ returned \subseteq CorpusTerms
                /\ \A a \in 1..(Len(UniqueTerms(i)) - 1) :
                      Weight(i, UniqueTerms(i)[a]) >= Weight(i, UniqueTerms(i)[a + 1])
                /\ \A u \in CorpusTerms \ returned : \A t \in returned :
                      Weight(i, u) <= Weight(i, t)

\* C17 witness: a vocabulary of more than 10 terms, and a source with a
\* returned term that weighs more than a term left out.
C17_Witness ==
    /\ vpc = "done"
    /\ Cardinality(CorpusTerms) > TopTerms
    /\ \E i \in 1..Len(uniq) :
        /\ Len(UniqueTerms(i)) = TopTerms
        /\ \E u \in CorpusTerms \ {UniqueTerms(i)[a] : a \in 1..TopTerms} :
              Weight(i, UniqueTerms(i)[1]) > Weight(i, u)

\* every maximal run of digits, with a "." or ")" that follows it, replaced
\* by one space
RECURSIVE RemoveDigitRuns(_)
RemoveDigitRuns(text) ==
    LET digits == {k \in 1..Len(text) : IsDigit(text[k])}
    IN  IF digits = {} THEN text
        ELSE LET a == CHOOSE k \in digits : \A j \in digits : k <= j
                 b == SkipDigits(text, a)
                 c == IF b <= Len(text) /\ text[b] \in {".", ")"} THEN b + 1 ELSE b
             IN  SubSeq(text, 1, a - 1) \o <<" ">>
                     \o RemoveDigitRuns(SubSeq(text, c, Len(text)))

\* C18: preprocess replaces every maximal run of digits, followed by "." or
\* ")" or not, by a single space and lowercases: no digit survives.
C18_EveryDigitRunRemoved ==
    SimilarityDone =>
        \A i \in 1..Len(corpus) :
            /\ clean_texts[i] = Lower(RemoveDigitRuns(corpus[i][2]))
            /\ \A k \in 1..Len(clean_texts[i]) : ~IsDigit(clean_texts[i][k])

----------------------------------------------------------------------------
(* Properties of the order of the rankings and of the counters.            *)

\* C19: the row order of both rankings is a function of the totals alone:
\* the same whatever the order in which the sources first arrived.
C19_OrderFromTotalsOnly ==
    apc = "done" =>
        \A order \in Orderings(DOMAIN results) :
            /\ SortValues(StepData(results, order), FALSE) = printed[1]
            /\ SortValues(AggressionData(results, order), TRUE) = printed[2]

\* the line starts with optional whitespace, an integer (the characters
\* a + 1 .. b), optional whitespace and "." or ")"
StartsMajorStep(line, a, b) ==
    /\ \A k \in 1..a : IsSpace(line[k])
    /\ \A k \in (a + 1)..b : IsDigit(line[k])
    /\ \E c \in b..(Len(line) - 1) :
        /\ \A k \in (b + 1)..c : IsSpace(line[k])
        /\ line[c + 1] \in {".", ")"}

IsMajorStepLine(line) ==
    \E a \in 0..Len(line) : \E b \in (a + 1)..Len(line) : StartsMajorStep(line, a, b)

\* the integer the major-step line starts with
IntegerOf(line) ==
    LET a == CHOOSE x \in 0..Len(line) : \E b \in (x + 1)..Len(line) : StartsMajorStep(line, x, b)
        b == CHOOSE y \in (a + 1)..Len(line) : StartsMajorStep(line, a, y)
    IN  ParseInt(SubSeq(line, a + 1, b))

IsSubStepLine(line) ==
    \E a \in 0..(Len(line) - 1) :
        /\ \A k \in 1..a : IsSpace(line[k])
        /\ line[a + 1] \in {"-", "*", "bullet"}

\* C20: after any prefix of the lines, major_steps and sub_steps count the
\* major-step and sub-step lines of the prefix, and current_major_step is
\* the integer of the last major-step line, 0 if there is none.
C20_CountersMatchPrefix ==
    pc \in {"scan", "returned"} =>
        LET majors == {j \in 1..idx : IsMajorStepLine(lines[j])}
        IN  /\ major_steps = Cardinality(majors)
            /\ sub_steps = Cardinality({j \in 1..idx : IsSubStepLine(lines[j])})
            /\ current_major_step =
                  IF majors = {} THEN 0
                  ELSE IntegerOf(lines[CHOOSE j \in majors : \A k \in majors : k <= j])

\* C20 witness: the whole text scanned, a sub-step counted, and the captured
\* number of two digits, different from the count of major steps.
C20_Witness ==
    /\ pc = "returned"
    /\ sub_steps > 0
    /\ major_steps > 0
    /\ current_major_step >= 10
    /\ current_major_step # major_steps

----------------------------------------------------------------------------
(* Properties of the returned position and of the running totals.          *)

\* C21: the position analyze_workflow holds and returns is None or an
\* integer >= 1, never 0 or negative, whatever numbers the major-step lines
\* carry, a step numbered 0 included.
C21_PositionNoneOrPositive ==
    /\ intervention_step_position = None \/ Val(intervention_step_position) >= 1
    /\ pc = "returned" => (result[3] = None \/ Val(result[3]) >= 1)

\* C21 witness: a returned text whose last major-step line before the first
\* keyword line is numbered 0, and a position was returned.
C21_Witness ==
    /\ pc = "returned"
    /\ result[3] # None
    /\ \E j \in 1..Len(lines) :
        /\ HasKeyword(lines[j])
        /\ \A k \in 1..(j - 1) : ~(HasKeyword(lines[k]) /\ MajorLines(k) # {})
        /\ MajorLines(j) # {}
        /\ LastMajorNumber(j) = 0

\* the sum of count over a set of sources
RECURSIVE SumOfCounts(_)
SumOfCounts(sites) ==
    IF sites = {} THEN 0
    ELSE LET site == CHOOSE x \in sites : TRUE
         IN  results[site].count + SumOfCounts(sites \ {site})

\* C22: between the files structural_analysis accumulates, every source key
\* of results has count >= 1, aggression_count <= count and
\* aggression_pos_sum >= aggression_count, and processed_files is the sum of
\* count over the sources.
C22_TotalsConsistent ==
    /\ \A site \in DOMAIN results :
        /\ results[site].count >= 1
        /\ results[site].aggression_count <= results[site].count
        /\ results[site].aggression_pos_sum >= results[site].aggression_count
    /\ processed_files = SumOfCounts(DOMAIN results)

\* C22 witness: a source with two files of which one has a position, of a
\* step numbered above 1, and a second source with a file.
C22_Witness ==
    /\ processed_files >= 3
    /\ \E site \in DOMAIN results :
        /\ results[site].count = 2
        /\ results[site].aggression_count = 1
        /\ results[site].aggression_pos_sum > 1

====
